---- MODULE Spec2Model ----
(***************************************************************************)
(* Launch controller of the trebuchet simulator (TrebuchetSimulator, the   *)
(* Planck.js version) together with the archetype builders it drives.      *)
(*                                                                         *)
(* The rigid-body engine is an external collaborator: one world.step is    *)
(* a nondeterministic choice of the projectile's new position/velocity and *)
(* of the contact events the engine delivers during the step.  Positions   *)
(* and velocities live on a small integer grid (y grows downward, as in    *)
(* the engine).                                                            *)
(***************************************************************************)
EXTENDS Integers, Sequences, FiniteSets, TLC

VARIABLES sim,      \* the TrebuchetSimulator object (`this`) and its world
          timers,   \* callbacks scheduled by setTimeout in fire(), still pending
          stepLeft, \* iterations the loop of a running step(n) still has to do
          raised,   \* the exception the last operation ended with, or "none"
          est,      \* the locals of a running calculateEstimatedDistance
          ui,       \* the page: the pause button's label, the last event handled
          fixtures  \* the fixtures the builder under inspection has created

vars == <<sim, timers, stepLeft, raised, est, ui, fixtures>>

-----------------------------------------------------------------------------
(* Bounds of the model *)

MaxBuilds == 2     \* buildTrebuchet calls (completed or rejected) in one behaviour
MaxTime   == 2     \* stats.time, in ticks of 1/60 s
MaxSteps  == 2     \* the n of step(n)
EstMaxTicks == 3   \* iterations that fit under the estimation's time ceiling

(* Grid of the engine abstraction *)
Xs == 0 .. 1
Ys == 0 .. 2
RestY == 1                      \* projectile resting on the ground; 2 = sunk in
Motions == { <<0, 0, 0>>, <<3, 4, 1>>, <<8, -8, 1>> }   \* <<vx, vy, angular>>
SlingLengths == { 1, 2 }
EstValues == { 0, 1 }

\* IEEE not-a-number (what arithmetic on a missing parameter yields), encoded
\* as a value outside the grid; every comparison with it is false
NaN == 999
IsNaN(v) == v = NaN
Sub(a, b) == IF IsNaN(a) \/ IsNaN(b) THEN NaN ELSE a - b
Gt(a, b) == ~IsNaN(a) /\ ~IsNaN(b) /\ a > b
Ge(a, b) == ~IsNaN(a) /\ ~IsNaN(b) /\ a >= b
\* Math.max
Max(a, b) == IF IsNaN(a) \/ IsNaN(b) THEN NaN ELSE IF a > b THEN a ELSE b

-----------------------------------------------------------------------------
(* Identities of engine objects *)

Null == [gen |-> 0, role |-> "null"]
Ground == [gen |-> 0, role |-> "ground"]

BodyRoles == { "frame", "arm", "counterweight", "projectile" }
JointRoles == { "pivot", "cw", "sling" }

\* the two bodies a joint of a build connects
JointBodies(j) ==
    CASE j.role = "pivot" -> { [gen |-> j.gen, role |-> "frame"], [gen |-> j.gen, role |-> "arm"] }
      [] j.role = "cw"    -> { [gen |-> j.gen, role |-> "arm"], [gen |-> j.gen, role |-> "counterweight"] }
      [] j.role = "sling" -> { [gen |-> j.gen, role |-> "arm"], [gen |-> j.gen, role |-> "projectile"] }
      [] OTHER            -> {}

\* archetype names the controller has a builder for, and one it has not
Registered == { "fixed", "sandbox" }
Unregistered == { "bogus" }
TypeNames == Registered \cup Unregistered

ZeroStats(estimated) ==
    [ distance |-> 0, height |-> 0, maxDistance |-> 0, maxHeight |-> 0,
      velocity |-> 0, maxVelocity |-> 0, time |-> 0, estimatedDistance |-> estimated ]

\* the three shapes stats.estimatedDistance takes: the number 0, a string
\* produced by toFixed(2), or no property at all
EstNumber0 == [k |-> "number", v |-> 0]
EstString(v) == [k |-> "string2", v |-> v]
EstUndefined == [k |-> "undefined", v |-> 0]

\* what toFixed(2) returns: a string with two decimals, or "NaN"
ToFixed2(v) ==
    IF IsNaN(v) THEN [k |-> "NaN", v |-> 0] ELSE [k |-> "string2", v |-> v]

\* the string literal '0'
StringZero == [k |-> "string0", v |-> 0]

\* JavaScript truthiness of stats.estimatedDistance
Truthy(e) == e.k = "string2" \/ e.k = "NaN" \/ (e.k = "number" /\ e.v # 0)

getDefaultParameters == [ slingLength |-> 2 ]

\* history counters saturate at 2: "more than once"
Inc(c) == IF c >= 2 THEN 2 ELSE c + 1

-----------------------------------------------------------------------------
(* Engine operations used by the controller and the builders *)

\* world.destroyBody: the body leaves the world together with every joint
\* attached to it
destroyBody(w, b) ==
    [w EXCEPT !.bodies = @ \ {b},
              !.joints = { j \in @ : b \notin JointBodies(j) }]

destroyJoint(w, j) == [w EXCEPT !.joints = @ \ {j}]

RECURSIVE destroyBodies(_, _)
destroyBodies(w, bs) ==
    IF bs = {} THEN w
    ELSE LET b == CHOOSE x \in bs : TRUE
         IN destroyBodies(destroyBody(w, b), bs \ {b})

RECURSIVE destroyJoints(_, _)
destroyJoints(w, js) ==
    IF js = {} THEN w
    ELSE LET j == CHOOSE x \in js : TRUE
         IN destroyJoints(destroyJoint(w, j), js \ {j})

\* body.setType('static') outside a step: the engine also clears velocities
SetStatic(p) == [p EXCEPT !.type = "static", !.vx = 0, !.vy = 0, !.w = 0]

\* setLinearVelocity(0,0) / setAngularVelocity(0): ignored by a static body
ZeroVelocity(p) ==
    IF p.type = "static" THEN p ELSE [p EXCEPT !.vx = 0, !.vy = 0, !.w = 0]

-----------------------------------------------------------------------------
(* Archetype builders *)

RECURSIVE ISqrt(_)
ISqrt(n) == IF n <= 0 THEN 0
            ELSE LET r == ISqrt(n \div 4) * 2
                 IN IF (r + 1) * (r + 1) <= n THEN r + 1 ELSE r

\* the sling attachment point on the arm and the vertical span down to the
\* projectile's rest height, on the grid, for an arm of known length
SlingAttachX == 0
VerticalDistance == 1

\* `params.slingLength || 6`: the fallback replaces 0, NaN and undefined
FallbackSlingLength == 2
SlingLengthOf(params) ==
    IF "slingLength" \notin DOMAIN params THEN FallbackSlingLength
    ELSE IF params.slingLength = 0 \/ IsNaN(params.slingLength)
         THEN FallbackSlingLength
         ELSE params.slingLength

\* the length of the arm on the projectile side: the fixed-counterweight
\* builder reads params.projectileArmLength, the sandbox builder computes
\* params.armLength * 0.7, which is NaN when the parameter is missing
LeftArmKnown(type, params) ==
    IF type = "sandbox" THEN "armLength" \in DOMAIN params ELSE TRUE

\* horizontal placement of the projectile for a sling of the given length
\* hanging from slingAttachX, verticalDistance above the rest height
ProjX(slingLength, slingAttachX, verticalDistance) ==
    IF Gt(slingLength, verticalDistance)
    THEN slingAttachX
         + ISqrt(slingLength * slingLength - verticalDistance * verticalDistance)
    ELSE slingAttachX

\* the geometry a build computes for the projectile and its sling joint
Placement(type, params) ==
    LET slingLength == SlingLengthOf(params)
        slingAttachX == IF LeftArmKnown(type, params) THEN SlingAttachX ELSE NaN
        verticalDistance ==
            IF LeftArmKnown(type, params) THEN VerticalDistance ELSE NaN
    IN  [ slingLength |-> slingLength,
          slingAttachX |-> slingAttachX,
          verticalDistance |-> verticalDistance,
          projX |-> ProjX(slingLength, slingAttachX, verticalDistance),
          jointLength |-> slingLength ]

Bodies(gen) == { [gen |-> gen, role |-> r] : r \in BodyRoles }
Joints(gen) == { [gen |-> gen, role |-> r] : r \in JointRoles }

NewProjectile(type, params) ==
    [ x |-> Placement(type, params).projX, y |-> RestY,
      vx |-> 0, vy |-> 0, w |-> 0, type |-> "dynamic" ]

\* SandboxTrebuchetBuilder.build: frame, arm, counterweight, projectile and
\* the pivot, counterweight hinge and sling joints; no listener
SandboxBuild(w, gen, params) ==
    [ world |-> [w EXCEPT !.bodies = @ \cup Bodies(gen),
                          !.joints = @ \cup Joints(gen)],
      bodies |-> Bodies(gen), joints |-> Joints(gen),
      projectile |-> [gen |-> gen, role |-> "projectile"],
      slingJoint |-> [gen |-> gen, role |-> "sling"],
      pbody |-> NewProjectile("sandbox", params) ]

\* FixedCounterweightTrebuchetBuilder.build: the same bodies and joints, and
\* a pre-step and a post-solve listener on the simulator's world, both closed
\* over the projectile this build created
FixedBuild(w, gen, params) ==
    [ world |-> [w EXCEPT !.bodies = @ \cup Bodies(gen),
                          !.joints = @ \cup Joints(gen),
                          !.preStep = @ \cup {gen},
                          !.postSolve = @ \cup {gen}],
      bodies |-> Bodies(gen), joints |-> Joints(gen),
      projectile |-> [gen |-> gen, role |-> "projectile"],
      slingJoint |-> [gen |-> gen, role |-> "sling"],
      pbody |-> NewProjectile("fixed", params) ]

BuilderBuild(type, w, gen, params) ==
    IF type = "fixed" THEN FixedBuild(w, gen, params)
    ELSE SandboxBuild(w, gen, params)

-----------------------------------------------------------------------------
(* Initial state: the constructor has run, nothing is built yet *)

\* planck.World(...): nothing in it yet
NewWorld == [ bodies |-> {}, joints |-> {}, preStep |-> {}, postSolve |-> {} ]

\* identity of the bodies a builder creates in the temporary world of an
\* estimation (never one of a live build)
TempGen(s) == 0 - (s.builds + 1)

\* this.projectileTrajectory, by whether it holds any point
NoPoints == "empty"
push(trajectory) == "points"

InitSim ==
    [ world |-> [NewWorld EXCEPT !.bodies = {Ground}],
      trebuchetBodies |-> {}, joints |-> {},
      projectile |-> Null, slingJoint |-> Null,
      trebuchetType |-> "sandbox",
      parameters |-> getDefaultParameters,
      fired |-> FALSE, paused |-> TRUE, projectileHitGround |-> FALSE,
      stats |-> ZeroStats(EstNumber0),
      startX |-> 0, startY |-> 0,
      pbody |-> [x |-> 0, y |-> 0, vx |-> 0, vy |-> 0, w |-> 0, type |-> "dynamic"],
      projectileTrajectory |-> NoPoints,
      builds |-> 0, releases |-> 0, impacts |-> 0,
      tickedAfterImpact |-> FALSE ]

\* no estimation is running
EstIdle ==
    [ pc |-> "idle",
      p |-> [x |-> 0, y |-> 0, vx |-> 0, vy |-> 0, w |-> 0],
      attached |-> FALSE, tempFired |-> FALSE,
      tempProjectileHitGround |-> FALSE,
      maxX |-> 0, simTime |-> 0, samples |-> {},
      result |-> [k |-> "none", v |-> 0] ]

\* the page once DOMContentLoaded has been handled: no event yet, the pause
\* button reads 'Play'
NoKey == [ code |-> "none", shiftKey |-> FALSE ]
UiLoaded == [ pauseBtn |-> "Play", event |-> "load", key |-> NoKey,
              stepCalls |-> <<>> ]

\* no builder has been run for inspection
NoFixtures == [ pc |-> "idle" ]

Init ==
    /\ sim = InitSim
    /\ timers = 0
    /\ stepLeft = 0
    /\ raised = "none"
    /\ est = EstIdle
    /\ ui = UiLoaded
    /\ fixtures = NoFixtures

-----------------------------------------------------------------------------
(* The engine step and the listeners it calls *)

ProjectileLive(s) ==
    /\ s.projectile \in s.world.bodies
    /\ s.pbody.type = "dynamic"

\* what one world.step may do to the projectile: where it ends up, and
\* whether a projectile-ground contact began / was solved during the step
NoMotion(p) == [ x |-> p.x, y |-> p.y, vx |-> p.vx, vy |-> p.vy, w |-> p.w,
                 begin |-> FALSE, post |-> FALSE ]

StepOutcomes(p) ==
    { [ x |-> x, y |-> y, vx |-> m[1], vy |-> m[2], w |-> m[3],
        begin |-> b, post |-> q ] :
        x \in Xs, y \in Ys, m \in Motions, b \in BOOLEAN, q \in BOOLEAN }

\* the projectile overlaps the ground before or after the step; the engine's
\* overlap tests do not exclude a body at a NaN position
TouchesGround(p, e) ==
    \/ IsNaN(p.x) \/ IsNaN(p.y)
    \/ p.y >= RestY \/ e.y >= RestY

\* the sling joint of the projectile's build still constrains it
SlingAttached(s) ==
    [gen |-> s.projectile.gen, role |-> "sling"] \in s.world.joints

\* a coordinate that is NaN stays NaN whatever is added to it
Sticky(old, new) == IF IsNaN(old) THEN NaN ELSE new

\* pre-step listener of the fixed-counterweight build that made s.projectile
\* (the world is not locked yet, so setType takes effect)
PreStepListener(s) ==
    IF s.projectile.gen \in s.world.preStep /\ s.projectileHitGround
    THEN [s EXCEPT !.pbody = SetStatic(ZeroVelocity(@))]
    ELSE s

\* mutant: the begin-contact listener without its launched guard
BeginContactListener_NoFiredCheck(s) ==
    IF ~s.projectileHitGround
    THEN [s EXCEPT !.projectileHitGround = TRUE,
                   !.impacts = Inc(@),
                   !.pbody = ZeroVelocity(@)]
    ELSE s

\* the controller's begin-contact listener, for a projectile-ground contact;
\* the world is locked during the step, so setType('static') does nothing
BeginContactListener(s) ==
    IF ~s.projectileHitGround /\ s.fired
    THEN [s EXCEPT !.projectileHitGround = TRUE,
                   !.impacts = Inc(@),
                   !.pbody = ZeroVelocity(@)]
    ELSE s

\* mutant: the post-solve listener without its already-landed guard
PostSolveListener_Unguarded(s) ==
    IF s.projectile.gen \in s.world.postSolve /\ s.fired
    THEN [s EXCEPT !.pbody = ZeroVelocity(@),
                   !.projectileHitGround = TRUE,
                   !.impacts = Inc(@)]
    ELSE s

\* the builder's post-solve listener, for a projectile-ground contact
PostSolveListener(s) ==
    IF s.projectile.gen \in s.world.postSolve
       /\ s.fired /\ ~s.projectileHitGround
    THEN [s EXCEPT !.pbody = ZeroVelocity(@),
                   !.projectileHitGround = TRUE,
                   !.impacts = Inc(@)]
    ELSE s

\* the solver moves a dynamic body that is in the world; a sling joint
\* anchored at a NaN point applies a NaN impulse
Integrate(s, e) ==
    IF IsNaN(s.pbody.x) /\ SlingAttached(s)
    THEN [s EXCEPT !.pbody = [@ EXCEPT !.x = NaN, !.y = NaN,
                                       !.vx = NaN, !.vy = NaN, !.w = NaN]]
    ELSE [s EXCEPT !.pbody = [@ EXCEPT !.x = Sticky(@, e.x),
                                       !.y = Sticky(@, e.y),
                                       !.vx = Sticky(@, e.vx),
                                       !.vy = Sticky(@, e.vy),
                                       !.w = Sticky(@, e.w)]]

\* world.step(1/60) with engine outcome e
worldStep(s, e) ==
    LET s1 == PreStepListener(s)
    IN  IF ~ProjectileLive(s1) THEN s1
        ELSE LET s2 == IF e.begin THEN BeginContactListener(s1) ELSE s1
                 s3 == Integrate(s2, e)
             IN  IF e.post THEN PostSolveListener(s3) ELSE s3

\* the outcomes the engine can produce from state s; a contact event is
\* delivered only where a listener for it is registered on the world
EngineOutcomes(s) ==
    IF ProjectileLive(PreStepListener(s))
    THEN { e \in StepOutcomes(s.pbody) :
             /\ (e.begin \/ e.post) => TouchesGround(s.pbody, e)
             /\ e.post => s.world.postSolve # {} }
    ELSE { NoMotion(s.pbody) }

-----------------------------------------------------------------------------
(* TrebuchetSimulator *)

\* speed > 10 and the velocity angle atan2(-vy, vx) within 0.05 rad of pi/4:
\* tan(pi/4 - 0.05) = 0.9047.., tan(pi/4 + 0.05) = 1.1053..
ReleaseCondition(p) ==
    /\ ~IsNaN(p.vx) /\ ~IsNaN(p.vy)
    /\ p.vx * p.vx + p.vy * p.vy > 100
    /\ p.vx > 0 /\ p.vy < 0
    /\ 10000 * (0 - p.vy) > 9047 * p.vx
    /\ 10000 * (0 - p.vy) < 11053 * p.vx

checkSlingRelease(s) ==
    IF s.slingJoint # Null /\ s.projectile # Null /\ ReleaseCondition(s.pbody)
    THEN [s EXCEPT !.world = destroyJoint(@, s.slingJoint),
                   !.slingJoint = Null,
                   !.fired = TRUE,
                   !.releases = Inc(@)]
    ELSE s

\* mutant: a landed projectile is not re-frozen at the end of the tick
keepStopped_Skip(s) == s.pbody

\* "keep projectile stopped if it already hit ground"
keepStopped(s) ==
    IF s.projectileHitGround
    THEN SetStatic(ZeroVelocity(s.pbody))
    ELSE s.pbody

\* mutant: the clock keeps running after the impact
updateProjectileTracking_TimeRuns(s) ==
    IF s.projectile = Null THEN s
    ELSE
    LET p == keepStopped(s)
        distance == Sub(p.x, s.startX)
        height == Sub(s.startY, p.y)
        speed == IF IsNaN(p.vx) \/ IsNaN(p.vy) THEN NaN
                 ELSE ISqrt(p.vx * p.vx + p.vy * p.vy)
    IN  [s EXCEPT
           !.pbody = p,
           !.projectileTrajectory = push(@),
           !.stats = [@ EXCEPT
               !.distance = Max(0, distance),
               !.maxDistance = IF Gt(distance, @) THEN distance ELSE @,
               !.height = Max(0, height),
               !.maxHeight = IF Gt(height, @) THEN height ELSE @,
               !.velocity = IF IsNaN(speed) THEN @ ELSE speed,
               !.maxVelocity = IF Gt(speed, @) THEN speed ELSE @,
               !.time = @ + 1 ]]

updateProjectileTracking(s) ==
    IF s.projectile = Null THEN s
    ELSE
    LET p == keepStopped(s)
        distance == Sub(p.x, s.startX)
        height == Sub(s.startY, p.y)
        speed == IF IsNaN(p.vx) \/ IsNaN(p.vy) THEN NaN
                 ELSE ISqrt(p.vx * p.vx + p.vy * p.vy)
    IN  [s EXCEPT
           !.pbody = p,
           !.projectileTrajectory = push(@),
           !.stats = [@ EXCEPT
               !.distance = Max(0, distance),
               !.maxDistance = IF Gt(distance, @) THEN distance ELSE @,
               !.height = Max(0, height),
               !.maxHeight = IF Gt(height, @) THEN height ELSE @,
               !.velocity = IF IsNaN(speed) THEN @ ELSE speed,
               !.maxVelocity = IF Gt(speed, @) THEN speed ELSE @,
               !.time = IF ~s.projectileHitGround THEN @ + 1 ELSE @ ]]

\* the body of animate() when the controller is not paused
AnimateTick(s, e) ==
    updateProjectileTracking(checkSlingRelease(worldStep(s, e)))

\* mutant: the loop of step(n) without the release evaluation
StepTick_NoRelease(s, e) ==
    updateProjectileTracking(worldStep(s, e))

\* one iteration of the loop of step(n)
StepTick(s, e) ==
    LET s1 == worldStep(s, e)
        s2 == checkSlingRelease(s1)
    IN  updateProjectileTracking(s2)

\* a tick would push stats.time past the bound of the model
TimeLeft(s) ==
    s.stats.time < MaxTime \/ s.projectileHitGround \/ s.projectile = Null

Merge(defaults, params) ==
    [ k \in DOMAIN defaults \cup DOMAIN params |->
        IF k \in DOMAIN params THEN params[k] ELSE defaults[k] ]

\* calculateEstimatedDistance: builds and runs the archetype in a world of its
\* own and stores the peak distance est of that run; with no builder class for
\* the archetype, `new builderClass(...)` raises a TypeError
\* The temporary context is returned with the result: a world of its own,
\* and the controller's ground body.  The loop that produces maxX is
\* specified step by step under EstSpec.
calculateEstimatedDistance(s, maxX) ==
    LET tempSimulator == [ world |-> NewWorld, ground |-> Ground ]
    IN  IF s.trebuchetType \notin Registered
        THEN [ s |-> s, raised |-> "TypeError", temp |-> tempSimulator ]
        ELSE LET b == BuilderBuild(s.trebuchetType, tempSimulator.world,
                                   TempGen(s), s.parameters)
             IN  [ s |-> [s EXCEPT !.stats.estimatedDistance = ToFixed2(maxX)],
                   raised |-> "none",
                   temp |-> [tempSimulator EXCEPT !.world = b.world] ]

\* the joints of the handles that the teardown hands to destroyJoint although
\* destroying the bodies has already removed them from the world
staleJointDestroys(s) ==
    { j \in s.joints : j \notin destroyBodies(s.world, s.trebuchetBodies).joints }

\* mutant: the teardown destroys the joints but leaves the bodies
clearExisting_JointsOnly(s) == destroyJoints(s.world, s.joints)

\* "clear existing trebuchet": every body, then every joint, of the handles
clearExisting(s) ==
    destroyJoints(destroyBodies(s.world, s.trebuchetBodies), s.joints)

buildTrebuchet(s, type, params, maxX) ==
    LET cleared == clearExisting(s)
        s1 == [s EXCEPT !.world = cleared,
                        !.trebuchetType = type,
                        !.parameters = Merge(getDefaultParameters, params),
                        !.fired = FALSE,
                        !.projectileHitGround = FALSE,
                        !.stats = ZeroStats(EstNumber0),
                        !.builds = @ + 1,
                        !.releases = 0,
                        !.impacts = 0,
                        !.tickedAfterImpact = FALSE]
        r == calculateEstimatedDistance(s1, maxX)
    IN  IF r.raised # "none" THEN [ s |-> r.s, raised |-> r.raised ]
        ELSE IF type \notin Registered THEN [ s |-> r.s, raised |-> "none" ]
        ELSE LET b == BuilderBuild(type, r.s.world, r.s.builds, r.s.parameters)
             IN  [ s |-> [r.s EXCEPT !.world = b.world,
                                     !.trebuchetBodies = b.bodies,
                                     !.joints = b.joints,
                                     !.projectile = b.projectile,
                                     !.slingJoint = b.slingJoint,
                                     !.pbody = b.pbody,
                                     !.startX = b.pbody.x,
                                     !.startY = b.pbody.y],
                   raised |-> "none" ]

\* mutant: fire() takes the projectile's current position as the new anchor
fire_Reanchors(s) ==
    IF s.fired \/ s.projectile = Null
    THEN [ s |-> s, scheduled |-> 0 ]
    ELSE [ s |-> [s EXCEPT !.paused = FALSE,
                           !.fired = TRUE,
                           !.stats = ZeroStats(EstUndefined),
                           !.startX = s.pbody.x,
                           !.startY = s.pbody.y],
           scheduled |-> 1 ]

\* mutant: fire() without the already-fired check
fire_NoFiredCheck(s) ==
    IF s.projectile = Null
    THEN [ s |-> s, scheduled |-> 0 ]
    ELSE [ s |-> [s EXCEPT !.paused = FALSE,
                           !.fired = TRUE,
                           !.stats = ZeroStats(EstUndefined)],
           scheduled |-> 1 ]

fire(s) ==
    IF s.fired \/ s.projectile = Null
    THEN [ s |-> s, scheduled |-> 0 ]
    ELSE [ s |-> [s EXCEPT !.paused = FALSE,
                           !.fired = TRUE,
                           !.stats = ZeroStats(EstUndefined)],
           scheduled |-> 1 ]

\* mutant: the callback destroys the joint but keeps the reference
releaseTimeout_KeepsReference(s) ==
    IF s.slingJoint # Null
    THEN [s EXCEPT !.world = destroyJoint(@, s.slingJoint),
                   !.releases = Inc(@)]
    ELSE s

\* the callback fire() hands to setTimeout
releaseTimeout(s) ==
    IF s.slingJoint # Null
    THEN [s EXCEPT !.world = destroyJoint(@, s.slingJoint),
                   !.slingJoint = Null,
                   !.releases = Inc(@)]
    ELSE s

reset(s, maxX) ==
    LET r == buildTrebuchet(s, s.trebuchetType, s.parameters, maxX)
    IN  IF r.raised # "none" THEN r
        ELSE [ s |-> [r.s EXCEPT !.paused = TRUE], raised |-> "none" ]

\* mutant: pause() returns the flag as it was before the toggle
pause_ReturnsOld(s) ==
    [ s |-> [s EXCEPT !.paused = ~@], returned |-> s.paused ]

\* pause(): the state after the call and the value returned
pause(s) ==
    LET s1 == [s EXCEPT !.paused = ~@]
    IN  [ s |-> s1, returned |-> s1.paused ]

getStats(s) ==
    [ distance |-> ToFixed2(Max(0, s.stats.distance)),
      height |-> ToFixed2(Max(0, s.stats.height)),
      velocity |-> ToFixed2(Max(0, s.stats.velocity)),
      maxDistance |-> ToFixed2(Max(0, s.stats.maxDistance)),
      maxHeight |-> ToFixed2(Max(0, s.stats.maxHeight)),
      maxVelocity |-> ToFixed2(Max(0, s.stats.maxVelocity)),
      time |-> ToFixed2(s.stats.time),
      estimatedDistance |->
          IF Truthy(s.stats.estimatedDistance)
          THEN s.stats.estimatedDistance ELSE StringZero ]

updateParameter(s, param, value, maxX) ==
    reset([s EXCEPT !.parameters = Merge(@, [k \in {param} |-> value])], maxX)

-----------------------------------------------------------------------------
(* Actions: one per entry point of the controller, run to completion *)

Idle == stepLeft = 0

EmptyParams == [k \in {} |-> 0]
ArmLengths == { 2 }
ParamInputs ==
    { EmptyParams } \cup [ slingLength : SlingLengths ]
                    \cup [ armLength : ArmLengths ]

\* the calls of buildTrebuchet tried: any archetype with the first two kinds
\* of parameter sets, an arm length for the archetype that reads one
BuildInputs ==
    { c \in TypeNames \X ParamInputs :
        "armLength" \in DOMAIN c[2] => c[1] = "sandbox" }

BuildTrebuchet ==
    /\ Idle /\ sim.builds < MaxBuilds
    /\ \E c \in BuildInputs, maxX \in EstValues :
         LET r == buildTrebuchet(sim, c[1], c[2], maxX)
         IN  sim' = r.s /\ raised' = r.raised
    /\ UNCHANGED <<timers, stepLeft, est, ui, fixtures>>

Reset ==
    /\ Idle /\ sim.builds < MaxBuilds
    /\ \E maxX \in EstValues :
         LET r == reset(sim, maxX)
         IN  sim' = r.s /\ raised' = r.raised
    /\ UNCHANGED <<timers, stepLeft, est, ui, fixtures>>

UpdateParameter ==
    /\ Idle /\ sim.builds < MaxBuilds
    /\ \E value \in SlingLengths, maxX \in EstValues :
         LET r == updateParameter(sim, "slingLength", value, maxX)
         IN  sim' = r.s /\ raised' = r.raised
    /\ UNCHANGED <<timers, stepLeft, est, ui, fixtures>>

Fire ==
    /\ Idle
    /\ LET r == fire(sim)
       IN  sim' = r.s /\ timers' = timers + r.scheduled
    /\ raised' = "none"
    /\ UNCHANGED <<stepLeft, est, ui, fixtures>>

Pause ==
    /\ Idle
    /\ sim' = pause(sim).s
    /\ raised' = "none"
    /\ UNCHANGED <<timers, stepLeft, est, ui, fixtures>>

\* history: a tick has run to its end with the impact flag already set
Ticked(s, t) ==
    [t EXCEPT !.tickedAfterImpact = @ \/ s.projectileHitGround]

\* the n step(n) is called with; the loop does nothing for n <= 0
StepCounts == -1 .. MaxSteps
Iterations(n) == IF n > 0 THEN n ELSE 0

\* mutant: step(n) leaves the pause flag as it finds it
Step_KeepsPauseFlag ==
    /\ Idle
    /\ \E n \in StepCounts :
         /\ \/ sim.projectileHitGround
            \/ sim.projectile = Null
            \/ sim.stats.time + n <= MaxTime
         /\ sim' = sim
         /\ stepLeft' = Iterations(n)
    /\ raised' = "none"
    /\ UNCHANGED <<timers, est, ui, fixtures>>

\* step(n): pause, then n loop iterations (StepLoop), then render
Step ==
    /\ Idle
    /\ \E n \in StepCounts :
         /\ \/ sim.projectileHitGround
            \/ sim.projectile = Null
            \/ sim.stats.time + n <= MaxTime
         /\ sim' = [sim EXCEPT !.paused = TRUE]
         /\ stepLeft' = Iterations(n)
    /\ raised' = "none"
    /\ UNCHANGED <<timers, est, ui, fixtures>>

StepLoop ==
    /\ stepLeft > 0
    /\ \E e \in EngineOutcomes(sim) : sim' = Ticked(sim, StepTick(sim, e))
    /\ stepLeft' = stepLeft - 1
    /\ UNCHANGED <<timers, raised, est, ui, fixtures>>

\* one animation frame
Animate ==
    /\ Idle
    /\ IF ~sim.paused
       THEN /\ TimeLeft(sim)
            /\ \E e \in EngineOutcomes(sim) :
                 sim' = Ticked(sim, AnimateTick(sim, e))
       ELSE sim' = sim
    /\ raised' = "none"
    /\ UNCHANGED <<timers, stepLeft, est, ui, fixtures>>

TimerCallback ==
    /\ Idle /\ timers > 0
    /\ sim' = releaseTimeout(sim)
    /\ timers' = timers - 1
    /\ raised' = "none"
    /\ UNCHANGED <<stepLeft, est, ui, fixtures>>

Next ==
    \/ BuildTrebuchet
    \/ Reset
    \/ UpdateParameter
    \/ Fire
    \/ Pause
    \/ Step
    \/ StepLoop
    \/ Animate
    \/ TimerCallback

Spec == Init /\ [][Next]_vars

-----------------------------------------------------------------------------
(* The silent run of calculateEstimatedDistance, one loop iteration a step *)

EstXs == 0 .. 2
BaseX == 1                      \* the base the estimate measures from
GroundTopY == 2                 \* this.groundTop: the centre has sunk in

\* the locals after builder.build(...) in the temporary world
EstStart(type, params) ==
    [ EstIdle EXCEPT
        !.pc = "loop",
        !.p = [ x |-> NewProjectile(type, params).x, y |-> RestY,
                vx |-> 0, vy |-> 0, w |-> 0 ],
        !.attached = TRUE ]

\* tempWorld.step(dt): the temporary world holds the trebuchet only (no
\* ground body), so its projectile stays dynamic
EstOutcomes(e) ==
    IF IsNaN(e.p.x) /\ e.attached
    THEN { [x |-> NaN, y |-> NaN, vx |-> NaN, vy |-> NaN, w |-> NaN] }
    ELSE { [ x |-> Sticky(e.p.x, x), y |-> Sticky(e.p.y, y),
             vx |-> Sticky(e.p.vx, m[1]), vy |-> Sticky(e.p.vy, m[2]),
             w |-> Sticky(e.p.w, m[3]) ] :
             x \in EstXs, y \in Ys, m \in Motions }

\* mutant: the run keeps the last distance instead of the largest
EstTrack_Last(maxX, x) == Sub(x, BaseX)

\* maxX = Math.max(maxX, pos.x - baseX)
EstTrack(maxX, x) == Max(maxX, Sub(x, BaseX))

\* the body of the while loop, with q what the step made of the projectile
EstLoopBody(e, q) ==
    LET release == ~e.tempFired /\ ReleaseCondition(q)
        fired1 == e.tempFired \/ release
    IN  [ e EXCEPT
            !.p = q,
            !.simTime = @ + 1,
            !.attached = IF release THEN FALSE ELSE @,
            !.tempFired = fired1,
            !.maxX = IF fired1 THEN EstTrack(@, q.x) ELSE @,
            !.samples = IF fired1 THEN @ \cup { Sub(q.x, BaseX) } ELSE @,
            !.tempProjectileHitGround =
                IF fired1 /\ Ge(q.y, GroundTopY) THEN TRUE ELSE @ ]

EstLoopGuard(e) == e.simTime < EstMaxTicks /\ ~e.tempProjectileHitGround

\* entry of calculateEstimatedDistance in a build from the constructed state
EstInit ==
    /\ \E c \in BuildInputs :
         /\ c[1] \in Registered
         /\ sim = [InitSim EXCEPT !.trebuchetType = c[1],
                                  !.parameters = Merge(getDefaultParameters, c[2]),
                                  !.builds = 1]
    /\ est = EstStart(sim.trebuchetType, sim.parameters)
    /\ timers = 0
    /\ stepLeft = 0
    /\ raised = "none"
    /\ ui = UiLoaded
    /\ fixtures = NoFixtures

EstIterate ==
    /\ est.pc = "loop" /\ EstLoopGuard(est)
    /\ \E q \in EstOutcomes(est) : est' = EstLoopBody(est, q)
    /\ UNCHANGED <<sim, timers, stepLeft, raised, ui, fixtures>>

\* the loop is left: this.stats.estimatedDistance = maxX.toFixed(2)
EstReturn ==
    /\ est.pc = "loop" /\ ~EstLoopGuard(est)
    /\ est' = [est EXCEPT !.pc = "done", !.result = ToFixed2(est.maxX)]
    /\ sim' = [sim EXCEPT !.stats.estimatedDistance = ToFixed2(est.maxX)]
    /\ UNCHANGED <<timers, stepLeft, raised, ui, fixtures>>

EstNext == EstIterate \/ EstReturn

EstSpec == EstInit /\ [][EstNext]_vars

\* the loop is synchronous code: it runs until it returns
EstFairSpec == EstSpec /\ WF_vars(EstNext)

-----------------------------------------------------------------------------
(* The page: one action per event handler, each calling the controller *)

KeyCodes == { "Space", "Enter", "ArrowRight", "KeyA" }
ShiftStepFrames == 10           \* simulator.step(10)

\* simulator.step(n) run to its end: the states it can return in
RECURSIVE stepRuns(_, _)
stepRuns(s, n) ==
    IF n <= 0 THEN { s }
    ELSE UNION { stepRuns(Ticked(s, StepTick(s, e)), n - 1) :
                   e \in EngineOutcomes(s) }

stepCall(s, n) == stepRuns([s EXCEPT !.paused = TRUE], n)

\* the ticks of a step(n) stay within the time bound of the model
StepFits(s, n) ==
    s.projectileHitGround \/ s.projectile = Null \/ s.stats.time + n <= MaxTime

\* what the handler of an event leaves on the page
Handled(u, event, key, label, calls) ==
    [ pauseBtn |-> label, event |-> event, key |-> key, stepCalls |-> calls ]

\* the body shared by the Reset button and the Enter key: reset(), pause(),
\* and the label set to 'Play'; a reset() that throws ends the handler
resetControl(event, key) ==
    /\ sim.builds < MaxBuilds
    /\ \E maxX \in EstValues :
         LET r == reset(sim, maxX)
         IN  IF r.raised # "none"
             THEN /\ sim' = r.s /\ raised' = r.raised
                  /\ ui' = Handled(ui, event, key, ui.pauseBtn, <<>>)
             ELSE /\ sim' = pause(r.s).s /\ raised' = "none"
                  /\ ui' = Handled(ui, event, key, "Play", <<>>)

\* the body shared by the Pause button and the space bar
pauseControl(event, key) ==
    /\ sim' = pause(sim).s
    /\ raised' = "none"
    /\ ui' = Handled(ui, event, key,
                     IF pause(sim).returned THEN "Play" ELSE "Pause", <<>>)

\* a handler that calls simulator.step(n) once
stepControl(event, key, n) ==
    /\ StepFits(sim, n)
    /\ sim' \in stepCall(sim, n)
    /\ raised' = "none"
    /\ ui' = Handled(ui, event, key, ui.pauseBtn, <<n>>)

UiResetClick ==
    /\ resetControl("resetBtn", NoKey)
    /\ UNCHANGED <<timers, stepLeft, est, fixtures>>

UiPauseClick ==
    /\ pauseControl("pauseBtn", NoKey)
    /\ UNCHANGED <<timers, stepLeft, est, fixtures>>

UiStepClick ==
    /\ stepControl("stepBtn", NoKey, 1)
    /\ UNCHANGED <<timers, stepLeft, est, fixtures>>

\* parseInt(stepCountInput.value) || 1
UiStepMultiClick ==
    /\ \E v \in StepCounts :
         stepControl("stepMultiBtn", NoKey, IF v = 0 THEN 1 ELSE v)
    /\ UNCHANGED <<timers, stepLeft, est, fixtures>>

\* the keydown listener: an if / else-if chain over e.code
UiKeydown ==
    /\ \E code \in KeyCodes, shiftKey \in BOOLEAN :
         LET key == [ code |-> code, shiftKey |-> shiftKey ]
         IN  IF code = "Space" THEN pauseControl("keydown", key)
             ELSE IF code = "Enter" THEN resetControl("keydown", key)
             ELSE IF code = "ArrowRight" THEN stepControl("keydown", key, 1)
             ELSE IF code = "ArrowRight" /\ shiftKey
                  THEN stepControl("keydown", key, ShiftStepFrames)
             ELSE /\ sim' = sim /\ raised' = "none"
                  /\ ui' = Handled(ui, "keydown", key, ui.pauseBtn, <<>>)
    /\ UNCHANGED <<timers, stepLeft, est, fixtures>>

\* the archetype select: buildTrebuchet(type, simulator.parameters)
UiTypeChange ==
    /\ sim.builds < MaxBuilds
    /\ \E type \in Registered, maxX \in EstValues :
         LET r == buildTrebuchet(sim, type, sim.parameters, maxX)
         IN  sim' = r.s /\ raised' = r.raised
    /\ ui' = Handled(ui, "typeSelect", NoKey, ui.pauseBtn, <<>>)
    /\ UNCHANGED <<timers, stepLeft, est, fixtures>>

\* a parameter input: updateParameter(param.id, value)
UiParamChange ==
    /\ sim.builds < MaxBuilds
    /\ \E value \in SlingLengths, maxX \in EstValues :
         LET r == updateParameter(sim, "slingLength", value, maxX)
         IN  sim' = r.s /\ raised' = r.raised
    /\ ui' = Handled(ui, "paramInput", NoKey, ui.pauseBtn, <<>>)
    /\ UNCHANGED <<timers, stepLeft, est, fixtures>>

\* window resize: reset()
UiResize ==
    /\ sim.builds < MaxBuilds
    /\ \E maxX \in EstValues :
         LET r == reset(sim, maxX)
         IN  sim' = r.s /\ raised' = r.raised
    /\ ui' = Handled(ui, "resize", NoKey, ui.pauseBtn, <<>>)
    /\ UNCHANGED <<timers, stepLeft, est, fixtures>>

\* DOMContentLoaded has run: the simulator is constructed and the sandbox
\* archetype built with the default parameters
UiInit ==
    /\ \E maxX \in EstValues :
         sim = buildTrebuchet(InitSim, "sandbox", getDefaultParameters, maxX).s
    /\ timers = 0
    /\ stepLeft = 0
    /\ raised = "none"
    /\ est = EstIdle
    /\ ui = UiLoaded
    /\ fixtures = NoFixtures

UiNext ==
    \/ UiResetClick
    \/ UiPauseClick
    \/ UiStepClick
    \/ UiStepMultiClick
    \/ UiKeydown
    \/ UiTypeChange
    \/ UiParamChange
    \/ UiResize
    \/ Animate

UiSpec == UiInit /\ [][UiNext]_vars

-----------------------------------------------------------------------------
(* The fixtures a builder creates: collision filter bits and arm density *)

\* bitwise AND of two filter words
RECURSIVE BitAnd(_, _)
BitAnd(a, b) ==
    IF a = 0 \/ b = 0 THEN 0
    ELSE (a % 2) * (b % 2) + 2 * BitAnd(a \div 2, b \div 2)

\* the engine's rule: each fixture's mask contains the other's category
ShouldCollide(f, g) ==
    BitAnd(f.mask, g.cat) # 0 /\ BitAnd(g.mask, f.cat) # 0

\* a fixture created without filter bits gets the engine's defaults:
\* category 0x0001, mask 0xFFFF
DefaultFilter == [ cat |-> 1, mask |-> 65535 ]

\* a density, kept as an exact fraction
Fraction(n, d) == [ num |-> n, den |-> d ]
SameFraction(p, q) == p.num * q.den = q.num * p.den

\* a body not created yet
Absent == [ cat |-> 0, mask |-> 0 ]

\* setupPhysics: the ground fixture, category 0x0001, mask 0xFFFF
groundFixture == [ cat |-> 1, mask |-> 65535 ]

\* the builder classes of src/trebuchets with a build() of their own
Builders == { "fixed", "sandbox", "hinged" }

\* user parameters the builds read for the arm
ArmMasses == { 5, 20, 30, 500 }
FixtureArmLengths == { 10, 20 }

\* the params tried: armLength is read by the sandbox and hinged builders,
\* the two arm lengths (here 70% and 30% of it) by the fixed builder
FixtureParams ==
    { [ armMass |-> m, armLength |-> l,
        projectileArmLength |-> (7 * l) \div 10,
        counterweightArmLength |-> (3 * l) \div 10 ] :
      m \in ArmMasses, l \in FixtureArmLengths }

\* BaseTrebuchetBuilder.createProjectile: a fixture without filter bits
createProjectile == DefaultFilter

\* BaseTrebuchetBuilder.createCounterweight: category 0x0004,
\* mask 0x0001 | 0x0004 | 0x0008
createCounterweight == [ cat |-> 4, mask |-> 1 + 4 + 8 ]

\* the fixtures of FixedCounterweightTrebuchetBuilder.build; the arm is
\* planck.Box((left + right) / 2, 1 / 2) with density 1.0.  Widths are kept
\* in quarters of a metre (1 = 4/4, 0.75 = 3/4)
FixedFixtures(params) ==
    [ frame |-> [ cat |-> 2, mask |-> 1 ],
      arm |-> [ cat |-> 16, mask |-> 1,
                length |-> params.projectileArmLength
                           + params.counterweightArmLength,
                width4 |-> 4, density |-> Fraction(1, 1) ],
      counterweight |-> [ cat |-> 4, mask |-> 0 ],
      projectile |-> [ cat |-> 8, mask |-> 1 ] ]

\* the fixtures of SandboxTrebuchetBuilder.build; the arm is
\* planck.Box(armLength / 2, 1 / 2) with density 1.0 and no filter bits
SandboxFixtures(params) ==
    [ frame |-> [ cat |-> 2, mask |-> 1 ],
      arm |-> [ cat |-> DefaultFilter.cat, mask |-> DefaultFilter.mask,
                length |-> params.armLength,
                width4 |-> 4, density |-> Fraction(1, 1) ],
      counterweight |-> [ cat |-> 4, mask |-> 1 ],
      projectile |-> [ cat |-> 8, mask |-> 1 + 4 ] ]

\* the fixtures of HingedTrebuchetBuilder.build; the arm is
\* planck.Box(armLength / 2, armWidth / 2), armWidth = 0.75, with density
\* armMass / (armLength * armWidth); frame and arm have no filter bits
HingedFixtures(params) ==
    [ frame |-> DefaultFilter,
      arm |-> [ cat |-> DefaultFilter.cat, mask |-> DefaultFilter.mask,
                length |-> params.armLength,
                width4 |-> 3,
                density |-> Fraction(4 * params.armMass,
                                     params.armLength * 3) ],
      counterweight |-> createCounterweight,
      projectile |-> createProjectile ]

\* the build() of the builder class
BuilderFixtures(builder, params) ==
    IF builder = "fixed" THEN FixedFixtures(params)
    ELSE IF builder = "sandbox" THEN SandboxFixtures(params)
    ELSE HingedFixtures(params)

\* build(baseX, baseY, params) is entered: only the ground exists
BuildStart(builder, params) ==
    [ pc |-> "frame", builder |-> builder, params |-> params,
      ground |-> groundFixture, frame |-> Absent, arm |-> Absent,
      counterweight |-> Absent, projectile |-> Absent ]

CreateFrame ==
    /\ fixtures.pc = "frame"
    /\ fixtures' = [fixtures EXCEPT !.frame = BuilderFixtures(fixtures.builder, fixtures.params).frame,
                                    !.pc = "arm"]
    /\ UNCHANGED <<sim, timers, stepLeft, raised, est, ui>>

CreateArm ==
    /\ fixtures.pc = "arm"
    /\ fixtures' = [fixtures EXCEPT
                      !.arm = BuilderFixtures(fixtures.builder, fixtures.params).arm,
                      !.pc = "counterweight"]
    /\ UNCHANGED <<sim, timers, stepLeft, raised, est, ui>>

CreateCounterweight ==
    /\ fixtures.pc = "counterweight"
    /\ fixtures' = [fixtures EXCEPT
                      !.counterweight =
                         BuilderFixtures(fixtures.builder,
                                         fixtures.params).counterweight,
                      !.pc = "projectile"]
    /\ UNCHANGED <<sim, timers, stepLeft, raised, est, ui>>

CreateProjectile ==
    /\ fixtures.pc = "projectile"
    /\ fixtures' = [fixtures EXCEPT
                      !.projectile =
                         BuilderFixtures(fixtures.builder,
                                         fixtures.params).projectile,
                      !.pc = "built"]
    /\ UNCHANGED <<sim, timers, stepLeft, raised, est, ui>>

FixtureInit ==
    /\ sim = InitSim
    /\ timers = 0
    /\ stepLeft = 0
    /\ raised = "none"
    /\ est = EstIdle
    /\ ui = UiLoaded
    /\ \E builder \in Builders, params \in FixtureParams :
         fixtures = BuildStart(builder, params)

FixtureNext ==
    \/ CreateFrame
    \/ CreateArm
    \/ CreateCounterweight
    \/ CreateProjectile

FixtureSpec == FixtureInit /\ [][FixtureNext]_vars

-----------------------------------------------------------------------------
(* Vocabulary of the properties *)

\* the most recent buildTrebuchet call ran to completion: the controller's
\* handles are those of the newest generation
BuildCompleted(s) == s.builds > 0 /\ s.projectile.gen = s.builds

StatsZeroed(s) ==
    /\ s.stats.distance = 0 /\ s.stats.height = 0 /\ s.stats.velocity = 0
    /\ s.stats.maxDistance = 0 /\ s.stats.maxHeight = 0
    /\ s.stats.maxVelocity = 0 /\ s.stats.time = 0

\* no controller handle refers to a body or joint that has been destroyed
HandlesLive(s) ==
    /\ s.trebuchetBodies \subseteq s.world.bodies
    /\ s.joints \subseteq s.world.joints
    /\ s.projectile \in {Null} \cup s.world.bodies
    /\ s.slingJoint \in {Null} \cup s.world.joints

\* fire() has run in the current build lifetime (only fire() drops
\* estimatedDistance from stats)
FireCalled(s) == s.fired /\ s.stats.estimatedDistance = EstUndefined

\* the simulation state a tick produces, without the pause flag and the
\* history fields
SimulationState(s) ==
    [ world |-> s.world, slingJoint |-> s.slingJoint, fired |-> s.fired,
      projectileHitGround |-> s.projectileHitGround, stats |-> s.stats,
      pbody |-> s.pbody ]

BuildRegistered == BuildTrebuchet /\ sim'.trebuchetType \in Registered
BuildUnregistered == BuildTrebuchet /\ sim'.trebuchetType \notin Registered

-----------------------------------------------------------------------------
(* Properties *)

\* C1: fire() is idempotent.  Called with fired already true it changes no
\* state and schedules no further delayed release; called with fired false
\* and a projectile present it sets fired, clears paused and schedules
\* exactly one delayed release.
C1_FireIdempotent ==
    [][ Fire =>
          /\ sim.fired => (sim' = sim /\ timers' = timers)
          /\ (~sim.fired /\ sim.projectile # Null) =>
                (sim'.fired /\ ~sim'.paused /\ timers' = timers + 1) ]_vars

\* C1 witness: fire() has acted in the first build (its callback is still
\* pending, the sling still attached), so a second fire() meets fired = true
C1_Witness ==
    /\ FireCalled(sim) /\ sim.builds = 1 /\ timers = 1
    /\ sim.slingJoint # Null /\ ~sim.paused

\* C2: reset() always ends with the controller paused, not fired, the impact
\* flag clear and the statistics zeroed, whatever the state before.
C2_ResetPausesAndZeroes ==
    [][ Reset =>
          /\ sim'.paused /\ ~sim'.fired /\ ~sim'.projectileHitGround
          /\ StatsZeroed(sim') ]_vars

\* C3: once a build has completed, the world holds exactly the ground and
\* the bodies and joints of that build (less its sling joint once released):
\* nothing of an earlier build survives.
C3_NoResidue ==
    BuildCompleted(sim) =>
      /\ sim.world.bodies = {Ground} \cup Bodies(sim.builds)
      /\ sim.world.joints =
           IF sim.slingJoint = Null
           THEN Joints(sim.builds) \ { [gen |-> sim.builds, role |-> "sling"] }
           ELSE Joints(sim.builds)

\* C3 witness: a second build has completed on top of a completed first one
C3_Witness ==
    /\ BuildCompleted(sim) /\ sim.builds = 2
    /\ sim.world.preStep # {} /\ sim.projectile.gen \notin sim.world.preStep

\* C4: buildTrebuchet for a registered archetype ends in Idle from any
\* state: a trebuchet is built, fired is false and paused is true.
C4_BuildEndsIdle ==
    [][ BuildRegistered =>
          (BuildCompleted(sim') /\ ~sim'.fired /\ sim'.paused) ]_vars

\* C5: a build for an unregistered archetype raises no exception, creates
\* no body, and leaves no handle referring to a destroyed body or joint.
C5_RejectedBuildConsistent ==
    [][ BuildUnregistered =>
          /\ raised' = "none"
          /\ sim'.world.bodies \subseteq sim.world.bodies
          /\ HandlesLive(sim') ]_vars

\* C6: a completed build that has not been fired keeps its sling joint: no
\* delayed release of an earlier fire() destroys it.
C6_RebuildCancelsLaunch ==
    (BuildCompleted(sim) /\ ~sim.fired) =>
       (sim.slingJoint # Null /\ sim.slingJoint \in sim.world.joints)

\* C7: at most one release event per build lifetime, and after it the
\* slingJoint reference is null (so later evaluations and callbacks do nothing).
C7_SingleRelease ==
    /\ sim.releases <= 1
    /\ sim.releases = 1 => sim.slingJoint = Null

\* C7 witness: fire() was called, its callback has run and a tick has
\* evaluated the release, with one release counted
C7_Witness ==
    /\ FireCalled(sim) /\ sim.builds = 1 /\ timers = 0
    /\ sim.stats.time >= 1 /\ sim.releases = 1

\* C8: once the impact flag is set, every tick ends with the projectile's
\* linear and angular velocity zero and the projectile static.
C8_LandedStaysFrozen ==
    sim.projectileHitGround =>
       /\ sim.pbody.vx = 0 /\ sim.pbody.vy = 0 /\ sim.pbody.w = 0
       /\ sim.pbody.type = "static"

\* C8 witness: a tick has run to its end after the impact tick
C8_Witness == sim.projectileHitGround /\ sim.tickedAfterImpact

\* C9: within a build lifetime the impact flag is set at most once and only
\* a build clears it; the impact action runs once even with the controller's
\* begin-contact listener and the builder's post-solve listener both installed.
C9_SingleImpact ==
    /\ [][ (sim.projectileHitGround /\ ~sim'.projectileHitGround)
              => sim'.builds = sim.builds + 1 ]_vars
    /\ [](sim.impacts <= 1)
    /\ [](sim.projectileHitGround <=> sim.impacts = 1)

\* C9 witness: a fixed-counterweight build (both listeners installed) has
\* landed and been ticked again
C9_Witness ==
    /\ sim.impacts = 1 /\ sim.tickedAfterImpact
    /\ sim.projectile.gen \in sim.world.postSolve

\* C10: wherever step(n) is about to run an iteration, that iteration and one
\* tick of the un-paused live loop produce the same simulation state from the
\* same state and engine outcome, and the iterations of step(n) run with the
\* controller paused.
C10_StepMatchesLive ==
    /\ stepLeft > 0 =>
         \A e \in EngineOutcomes(sim) :
           SimulationState(StepTick(sim, e)) = SimulationState(AnimateTick(sim, e))
    /\ stepLeft > 0 => sim.paused

\* C10 witness: inside step(n), one iteration done and one to go, on a
\* launched trebuchet whose sling is still attached
C10_Witness ==
    /\ stepLeft = 1 /\ sim.stats.time >= 1
    /\ sim.fired /\ sim.slingJoint # Null /\ ProjectileLive(sim)

\* what the event loop may run between two calls made from separate events
\* while the controller is paused: nothing, or a pending callback of fire()
BetweenCalls(s, pending) ==
    {s} \cup (IF pending > 0 THEN { releaseTimeout(s) } ELSE {})

\* step(1) with engine outcome e
StepOnce(s, e) == StepTick([s EXCEPT !.paused = TRUE], e)

\* C11: two step(1) calls in a row leave the state one step(2) call leaves,
\* for the same engine outcomes, from every reachable state, a delayed
\* release of fire() still pending included.
C11_StepsCompose ==
    Idle =>
      \A e1 \in EngineOutcomes(sim) :
        LET a == StepOnce(sim, e1)
        IN  \A b \in BetweenCalls(a, timers) :
              \A e2 \in EngineOutcomes(a) \cap EngineOutcomes(b) :
                 StepOnce(b, e2) = StepTick(a, e2)

\* C12: fire() with no live projectile (nothing built yet, or the projectile
\* handle refers to a body the world no longer holds) changes no state and
\* schedules no release.
C12_FireNeedsLiveProjectile ==
    [][ (Fire /\ sim.projectile \notin sim.world.bodies)
          => (sim' = sim /\ timers' = timers) ]_vars

\* C13: updateParameter ends with the previous instance destroyed and a
\* fresh one of the current archetype in its place, not fired, not landed,
\* statistics zeroed and the controller paused.
C13_UpdateRebuilds ==
    [][ UpdateParameter =>
          /\ BuildCompleted(sim')
          /\ sim'.world.bodies = {Ground} \cup Bodies(sim'.builds)
          /\ sim'.world.joints = Joints(sim'.builds)
          /\ ~sim'.fired /\ ~sim'.projectileHitGround
          /\ StatsZeroed(sim') /\ sim'.paused ]_vars

\* C14: pause() changes nothing but the paused flag, which it inverts; it
\* returns the flag's value after the call; two calls in a row restore the
\* flag.
C14_PauseToggles ==
    /\ [][ Pause =>
             /\ sim' = [sim EXCEPT !.paused = ~sim.paused]
             /\ timers' = timers /\ stepLeft' = stepLeft ]_vars
    /\ [](pause(sim).returned = pause(sim).s.paused)
    /\ [](pause(pause(sim).s).s = sim)

\* C14 witness: pause() has run on the controller as constructed (nothing
\* else clears the flag before a build)
C14_Witness ==
    /\ ~sim.paused /\ sim.builds = 0 /\ sim.projectile = Null
    /\ pause(sim).s.paused /\ pause(sim).returned

\* C15: every field getStats() returns is a string with two decimals, in
\* every reachable state.
C15_StatsTwoDecimals ==
    \A f \in DOMAIN getStats(sim) : getStats(sim)[f].k = "string2"

\* largest element of a non-empty set of numbers
SetMax(S) == CHOOSE m \in S : \A n \in S : m >= n

C17_EstimationIsolated ==
    sim.trebuchetType \in Registered =>
      \A maxX \in EstValues :
        LET r == calculateEstimatedDistance(sim, maxX)
        IN  /\ [r.s EXCEPT !.stats.estimatedDistance =
                               sim.stats.estimatedDistance] = sim
            /\ r.temp.world.bodies \cap sim.world.bodies = {}
            /\ r.temp.ground \notin sim.world.bodies

\* the placement of a build: the two cases of the geometry, within the
\* rounding of the grid, and the joint configured with the same length
PlacedAtSlingLength(g) ==
    LET h == Sub(g.projX, g.slingAttachX)
        L == g.slingLength
        V == g.verticalDistance
    IN  /\ g.jointLength = L
        /\ \/ /\ Gt(L, V) /\ Gt(h, 0)
              /\ h * h <= L * L - V * V
              /\ L * L - V * V < (h + 1) * (h + 1)
           \/ /\ Ge(V, L) /\ h = 0

\* C18: after every completed build the projectile sits where the geometry
\* of the sling puts it: to the right of the attachment point at distance
\* slingLength when the sling is longer than the vertical span, directly
\* below it otherwise, and the sling joint has that same length.
C18_ProjectilePlaced ==
    BuildCompleted(sim) =>
      LET g == Placement(sim.trebuchetType, sim.parameters)
      IN  PlacedAtSlingLength(g) /\ sim.startX = g.projX

\* C19: a completed build sets startX/startY to the position of the
\* projectile it created, and nothing but a build changes them.
C19_AnchorKept ==
    /\ [][ sim'.builds = sim.builds =>
              (sim'.startX = sim.startX /\ sim'.startY = sim.startY) ]_vars
    /\ [][ (sim'.builds # sim.builds /\ BuildCompleted(sim')) =>
              /\ sim'.pbody = NewProjectile(sim'.trebuchetType, sim'.parameters)
              /\ sim'.startX = sim'.pbody.x
              /\ sim'.startY = sim'.pbody.y ]_vars

\* C19 witness: the projectile was launched, released and has landed away
\* from where it started
C19_Witness ==
    /\ FireCalled(sim) /\ sim.releases = 1 /\ sim.projectileHitGround
    /\ ~IsNaN(sim.startX) /\ sim.pbody.x # sim.startX
    /\ sim.pbody.y # sim.startY

\* the delayed release of fire() is pending
TimerArmed == timers > 0

\* the per-tick evaluation of checkSlingRelease can still release
AngleArmed(s) == s.slingJoint # Null /\ s.projectile # Null

\* C20: the elapsed-time release and the angle/velocity release are never
\* armed together.
C20_OnePolicyArmed == ~(TimerArmed /\ AngleArmed(sim))

\* C21: fired goes from false to true only in a fire() call and back to
\* false only in a build; a tick, live or stepped, never sets fired, and a
\* tick destroys the sling only when fired was already true before it.
C21_FiredOnlyByFire ==
    /\ [][ (~sim.fired /\ sim'.fired) => Fire ]_vars
    /\ [][ (sim.fired /\ ~sim'.fired) => sim'.builds # sim.builds ]_vars
    /\ [][ (StepLoop \/ Animate) =>
             /\ sim'.fired = sim.fired
             /\ sim'.slingJoint # sim.slingJoint => sim.fired ]_vars

\* C22: the impact flag is set only in states where fired is; a step taken
\* while fired is false, a tick with a projectile-ground contact included,
\* neither sets the impact flag nor makes the projectile static.
C22_ImpactOnlyAfterFire ==
    /\ [](sim.projectileHitGround => sim.fired)
    /\ [][ (~sim.fired /\ sim'.builds = sim.builds) =>
              /\ ~sim'.projectileHitGround
              /\ sim'.pbody.type = sim.pbody.type ]_vars
    /\ [](~sim.fired =>
            \A e \in { o \in EngineOutcomes(sim) : o.begin /\ o.post } :
               ~worldStep(sim, e).projectileHitGround)

\* C22 witness: a built, not yet fired trebuchet has been ticked with its
\* projectile resting on the ground, where the engine reports contacts to
\* both listeners, and the impact flag is still clear
C22_Witness ==
    /\ BuildCompleted(sim) /\ ~sim.fired /\ sim.stats.time >= 1
    /\ sim.pbody.y >= RestY /\ ~sim.projectileHitGround
    /\ \E e \in EngineOutcomes(sim) : e.begin /\ e.post

\* the phases of a tick taken apart: the engine moving the bodies, and the
\* ground-impact evaluation for the contacts e reports
Physics(s, e) ==
    LET s1 == PreStepListener(s)
    IN  IF ProjectileLive(s1) THEN Integrate(s1, e) ELSE s1

ImpactEvaluation(s, e) ==
    IF ~ProjectileLive(s) THEN s
    ELSE LET s1 == IF e.begin THEN BeginContactListener(s) ELSE s
         IN  IF e.post THEN PostSolveListener(s1) ELSE s1

\* a tick whose phases run in the order release, impact, statistics
OrderedTick(s, e) ==
    updateProjectileTracking(
        ImpactEvaluation(checkSlingRelease(Physics(s, e)), e))

\* C23: every tick, live or stepped, ends in the state that evaluating the
\* release first, the ground impact second and the statistics last gives.
C23_ReleaseBeforeImpact ==
    \A e \in EngineOutcomes(sim) :
       /\ SimulationState(AnimateTick(sim, e)) = SimulationState(OrderedTick(sim, e))
       /\ SimulationState(StepTick(sim, e)) = SimulationState(OrderedTick(sim, e))

\* C24: a tick with a projectile present adds one tick duration to
\* stats.time unless the impact flag is set by the end of its engine step;
\* within a build stats.time changes in no other way but the zeroing of
\* fire(), and not at all once the impact flag is set.
C24_TimeFreezes ==
    /\ [][ (stepLeft' < stepLeft /\ sim.projectile # Null) =>
              sim'.stats.time = IF sim'.projectileHitGround
                                THEN sim.stats.time
                                ELSE sim.stats.time + 1 ]_vars
    /\ [][ (sim'.builds = sim.builds /\ sim'.stats.time # sim.stats.time) =>
              \/ /\ ~sim'.projectileHitGround
                 /\ sim'.stats.time = sim.stats.time + 1
              \/ /\ ~sim.fired /\ sim'.fired
                 /\ sim'.stats.time = 0 ]_vars
    /\ [][ (sim.projectileHitGround /\ sim'.builds = sim.builds) =>
              sim'.stats.time = sim.stats.time ]_vars

\* C24 witness: time had accumulated when the projectile landed, and a tick
\* has run to its end since
C24_Witness ==
    /\ sim.projectileHitGround /\ sim.tickedAfterImpact
    /\ sim.stats.time >= 1 /\ sim.stats.time < MaxTime

\* magnitude of the linear velocity
Magnitude(p) ==
    IF IsNaN(p.vx) \/ IsNaN(p.vy) THEN NaN
    ELSE ISqrt(p.vx * p.vx + p.vy * p.vy)

\* C25: after a tick with a projectile present distance, height and
\* velocity are max(0, x - startX), max(0, startY - y) and the speed of the
\* projectile, each maximum is the larger of its previous value and the
\* tick's raw value, and within a build a maximum decreases only in fire().
C25_StatsTrack ==
    /\ [](sim.projectile # Null =>
            \A e \in EngineOutcomes(sim) :
               \A t \in { StepTick(sim, e), AnimateTick(sim, e) } :
                  LET distance == Sub(t.pbody.x, sim.startX)
                      height == Sub(sim.startY, t.pbody.y)
                      speed == Magnitude(t.pbody)
                  IN  /\ t.stats.distance = Max(0, distance)
                      /\ t.stats.height = Max(0, height)
                      /\ t.stats.velocity = speed
                      /\ t.stats.maxDistance = Max(sim.stats.maxDistance, distance)
                      /\ t.stats.maxHeight = Max(sim.stats.maxHeight, height)
                      /\ t.stats.maxVelocity = Max(sim.stats.maxVelocity, speed))
    /\ [][ (sim'.builds = sim.builds /\ timers' <= timers) =>
              /\ sim'.stats.maxDistance >= sim.stats.maxDistance
              /\ sim'.stats.maxHeight >= sim.stats.maxHeight
              /\ sim'.stats.maxVelocity >= sim.stats.maxVelocity ]_vars

\* C26: while the controller is paused an animation frame or a timer
\* callback changes nothing of the simulation state: world, sling joint,
\* fired, impact flag, statistics, projectile.
C26_PausedIsQuiet ==
    [][ (sim.paused /\ (Animate \/ TimerCallback)) =>
           SimulationState(sim') = SimulationState(sim) ]_vars

\* C27: every joint handed to destroyJoint is in the world at that moment:
\* the teardown of a build destroys no joint that is already gone, and a
\* release destroys a sling joint the world still holds.
C27_NoDoubleDestroy ==
    /\ [][ sim'.builds # sim.builds => staleJointDestroys(sim) = {} ]_vars
    /\ [][ (sim'.builds = sim.builds /\ sim.slingJoint # Null
              /\ sim'.slingJoint = Null) =>
              sim.slingJoint \in sim.world.joints ]_vars

\* C28: after a completed build the listeners on the live world are those
\* of that build only, and every listener's projectile is a body of the
\* world.
C28_ListenersDoNotAccumulate ==
    BuildCompleted(sim) =>
      /\ sim.world.preStep \subseteq { sim.builds }
      /\ sim.world.postSolve \subseteq { sim.builds }
      /\ \A g \in sim.world.preStep \cup sim.world.postSolve :
            [gen |-> g, role |-> "projectile"] \in sim.world.bodies

\* C29: within a build lifetime the estimatedDistance getStats() reports
\* never changes; in particular fire() leaves it as the estimation run of
\* the build computed it.
C29_EstimateSurvivesFire ==
    [][ sim'.builds = sim.builds =>
           getStats(sim').estimatedDistance = getStats(sim).estimatedDistance ]_vars

\* C30: the estimation run follows the live controller's policies: it
\* measures distance from the projectile's pre-launch position, it records
\* the impact exactly when the launched projectile touches the ground, and
\* like a launch (whose delayed release always comes) it never ends with
\* the sling still attached.
C30_EstimationUsesLivePolicies ==
    /\ [](est.pc # "idle" =>
            BaseX = NewProjectile(sim.trebuchetType, sim.parameters).x)
    /\ [][ EstIterate =>
             (est'.tempProjectileHitGround <=>
                 (est'.tempFired /\ TouchesGround(est.p, est'.p))) ]_vars
    /\ [](est.pc = "done" => ~est.attached)

\* C31: in every reachable state no statistic is negative and each running
\* maximum is at least its live value.
C31_MaximaDominate ==
    /\ Ge(sim.stats.distance, 0) /\ Ge(sim.stats.maxDistance, sim.stats.distance)
    /\ Ge(sim.stats.height, 0) /\ Ge(sim.stats.maxHeight, sim.stats.height)
    /\ Ge(sim.stats.velocity, 0) /\ Ge(sim.stats.maxVelocity, sim.stats.velocity)
    /\ Ge(sim.stats.time, 0)

\* C33: every build, and so every reset and updateParameter, leaves the
\* recorded trajectory empty.
C33_BuildClearsTrajectory ==
    [][ sim'.builds # sim.builds =>
           sim'.projectileTrajectory = NoPoints ]_vars

\* C34: step(n) leaves the controller paused for every n, n <= 0 included:
\* the flag is set when the call starts, whatever it was, and is still set
\* after each iteration of its loop.
C34_StepPauses ==
    /\ [][ Step => sim'.paused ]_vars
    /\ [][ stepLeft' < stepLeft => (sim.paused /\ sim'.paused) ]_vars

\* C34 witness: step(n) is running on a launched trebuchet (fire() had
\* cleared the pause flag) whose delayed release is still pending
C34_Witness ==
    /\ stepLeft >= 1 /\ sim.paused
    /\ FireCalled(sim) /\ timers >= 1

\* the Reset control: the Reset button or the Enter key
ResetControl ==
    \/ UiResetClick
    \/ UiKeydown /\ ui'.key.code = "Enter"

\* C32: after the handler of the Reset control has run, the simulator is
\* paused and the pause button reads 'Play'.
C32_ResetControlPauses ==
    [][ ResetControl => (sim'.paused /\ ui'.pauseBtn = "Play") ]_vars

\* C37: an ArrowRight key event makes exactly one step call: step(1)
\* without Shift, step(10) with it.
C37_KeyboardStepping ==
    [][ (UiKeydown /\ ui'.key.code = "ArrowRight") =>
           ui'.stepCalls = IF ui'.key.shiftKey THEN << ShiftStepFrames >>
                           ELSE << 1 >> ]_vars

\* the builder has created all its fixtures
AllFixturesMade == fixtures.pc = "built"

\* C35: once a build has created its fixtures, the projectile collides with
\* the ground and not with the frame, and the counterweight collides with
\* neither the projectile nor the frame.
C35_FilterBits ==
    AllFixturesMade =>
       /\ ShouldCollide(fixtures.projectile, fixtures.ground)
       /\ ~ShouldCollide(fixtures.projectile, fixtures.frame)
       /\ ~ShouldCollide(fixtures.counterweight, fixtures.projectile)
       /\ ~ShouldCollide(fixtures.counterweight, fixtures.frame)

\* the arm fixture exists
ArmMade == fixtures.pc \in { "counterweight", "projectile", "built" }

\* C36: the density of the arm fixture is armMass divided by the area of the
\* arm (length times width).
C36_ArmDensity ==
    ArmMade =>
       SameFraction(fixtures.arm.density,
                    Fraction(4 * fixtures.params.armMass,
                             fixtures.arm.length * fixtures.arm.width4))

====
